---- MODULE Spec2Model ----
(***************************************************************************)
(* Model of dgraph/cmd/migrate/table_info.go: the per-table metadata       *)
(* builder (getColumnInfo, getTableInfo) and the reverse foreign-key       *)
(* resolver (validateAndGetReverse, populateReferencedByColumns).          *)
(*                                                                         *)
(* Names (tables, columns, constraints) are TLA+ strings; the only thing   *)
(* the code does with them is compare them and test them for emptiness.    *)
(* Declared type strings are sequences of characters, because the code     *)
(* matches prefixes of them.                                               *)
(***************************************************************************)
EXTENDS Integers, Sequences, FiniteSets, TLC

VARIABLES
    pc,                       \* position of the running function
    mysqlTypePrefixToGoType,  \* the prefix lookup table (package-level map)
    columnOutput,             \* getColumnInfo: its argument
    columnInfo,               \* getColumnInfo: its result, <<>> before the call
    tableInfo,                \* getTableInfo: the local *TableInfo, <<>> while nil
    colRead,                  \* getTableInfo: column rows scanned so far
    fkRead,                   \* getTableInfo: foreign-key rows scanned so far
    rowsErr,                  \* getTableInfo: rows.Err() of the column result
    foreignKeyRowsErr,        \* getTableInfo: foreignKeyRows.Err()
    ret,                      \* getTableInfo: the returned (record, error) pair
    tables,                   \* populateReferencedByColumns: its argument
    tableDone,                \* tables the outer range has finished
    curTable,                 \* the outer range's loop variable
    constraintDone,           \* constraints of curTable the inner range has visited
    curConstraint,            \* the inner range's loop variable
    runs,                     \* completed calls of populateReferencedByColumns
    firstRun                  \* the inbound lists as the first call left them

vars == <<pc, mysqlTypePrefixToGoType, columnOutput, columnInfo, tableInfo,
          colRead, fkRead, rowsErr, foreignKeyRowsErr, ret, tables, tableDone,
          curTable, constraintDone, curConstraint, runs, firstRun>>

columnVars == <<columnOutput, columnInfo>>
buildVars == <<tableInfo, colRead, fkRead, rowsErr, foreignKeyRowsErr, ret>>
resolveVars == <<tables, tableDone, curTable, constraintDone, curConstraint,
                 runs, firstRun>>

(***************************************************************************)
(* Bounds                                                                  *)
(***************************************************************************)
MaxLen == 2          \* longest declared type string / lookup key
MaxKeys == 2         \* most keys in a lookup table
MaxColRows == 2      \* most column rows of one table

(***************************************************************************)
(* Helpers                                                                 *)
(***************************************************************************)
EmptyMap == [k \in {} |-> k]

Put(m, k, v) == [x \in (DOMAIN m) \cup {k} |-> IF x = k THEN v ELSE m[x]]

Range(s) == {s[i] : i \in DOMAIN s}

SeqsUpTo(S, n) == UNION {[1..k -> S] : k \in 0..n}

\* every order in which a range statement can visit the key set S
Orders(S) == {o \in [1..Cardinality(S) -> S] : Range(o) = S}

(***************************************************************************)
(* KeyType, lines 27-33                                                    *)
(***************************************************************************)
NONE == 0
PRIMARY == 1
MULTI == 2

\* the zero value of DataType, what ColumnInfo{} starts with
ZeroDataType == 0

(***************************************************************************)
(* getColumnInfo, lines 78-95                                              *)
(***************************************************************************)
\* strings.HasPrefix
HasPrefix(s, prefix) ==
    /\ Len(prefix) <= Len(s)
    /\ SubSeq(s, 1, Len(prefix)) = prefix

\* the range loop of lines 88-93 visiting the keys in the given order: the
\* first key that is a prefix decides, and the loop breaks
RECURSIVE RangeLookup(_, _, _)
RangeLookup(dataType, order, i) ==
    IF i > Len(order) THEN ZeroDataType
    ELSE IF HasPrefix(dataType, order[i]) THEN mysqlTypePrefixToGoType[order[i]]
    ELSE RangeLookup(dataType, order, i + 1)

\* the switch of lines 81-86 without its "MUL" case
KeyTypeOfNoMulti(keyType) ==
    IF keyType = "PRI" THEN PRIMARY
    ELSE NONE

\* the switch of lines 81-86
KeyTypeOf(keyType) ==
    IF keyType = "PRI" THEN PRIMARY
    ELSE IF keyType = "MUL" THEN MULTI
    ELSE NONE

getColumnInfo(co, order) ==
    [name |-> co.fieldName,
     keyType |-> KeyTypeOf(co.keyType),
     dataType |-> RangeLookup(co.dataType, order, 1)]

(***************************************************************************)
(* Inputs of getColumnInfo                                                 *)
(***************************************************************************)
Alphabet == {"a", "b"}

TypeStrings == SeqsUpTo(Alphabet, MaxLen)

DataTypes == {1, 2}

KeyStrings == {"PRI", "MUL", "", "UNI"}

\* every lookup table of at most MaxKeys keys, each a non-empty prefix
LookupTables ==
    UNION {[K -> DataTypes] :
             K \in {K \in SUBSET (TypeStrings \ {<<>>}) : Cardinality(K) <= MaxKeys}}

(***************************************************************************)
(* A call of getColumnInfo on its own                                      *)
(***************************************************************************)
InitColumn ==
    /\ pc = "getColumnInfo"
    /\ mysqlTypePrefixToGoType \in LookupTables
    /\ columnOutput \in [fieldName : {"ssn"}, dataType : TypeStrings,
                         keyType : KeyStrings]
    /\ columnInfo = <<>>
    /\ tableInfo = <<>>
    /\ colRead = <<>>
    /\ fkRead = <<>>
    /\ rowsErr = FALSE
    /\ foreignKeyRowsErr = FALSE
    /\ ret = <<>>
    /\ tables = EmptyMap
    /\ tableDone = {}
    /\ curTable = ""
    /\ constraintDone = {}
    /\ curConstraint = ""
    /\ runs = 0
    /\ firstRun = EmptyMap

CallGetColumnInfo ==
    /\ pc = "getColumnInfo"
    /\ \E order \in Orders(DOMAIN mysqlTypePrefixToGoType) :
         columnInfo' = <<getColumnInfo(columnOutput, order)>>
    /\ pc' = "returned"
    /\ UNCHANGED <<mysqlTypePrefixToGoType, columnOutput, buildVars, resolveVars>>

NextColumn == CallGetColumnInfo

SpecColumn == InitColumn /\ [][NextColumn]_vars

(***************************************************************************)
(* getTableInfo, lines 97-175                                              *)
(***************************************************************************)
\* the table the record is built for
table == "registration"

\* the lookup table of the example: "varchar" is a string, "int" an integer
ExampleLookup ==
    (<<"v", "a", "r", "c", "h", "a", "r">> :> 1) @@ (<<"i", "n", "t">> :> 2)

\* "int(11)" and "unknown_type"
BuildTypes ==
    {<<"i", "n", "t", "(", "1", "1", ")">>,
     <<"u", "n", "k", "n", "o", "w", "n", "_", "t", "y", "p", "e">>}

\* the rows the column query can deliver
ColumnOutputs ==
    [fieldName : {"ssn", "id"}, dataType : BuildTypes, keyType : KeyStrings]

\* the rows the foreign-key usage query can deliver
ForeignKeyOutputs ==
    [columnName : {"student_id", "course_id"},
     constraintName : {"fk1", "fk2"},
     referencedTableName : {"student", "course"},
     referencedColumnName : {"id"}]

\* lines 106-111
NewTableInfo ==
    [tableName |-> table,
     columns |-> EmptyMap,
     referencedTables |-> {},
     foreignKeyConstraints |-> EmptyMap,
     constraintSources |-> <<>>]

\* return nil, err
ReturnError(err) ==
    /\ ret' = <<[info |-> <<>>, err |-> err]>>
    /\ pc' = "returned"

InitBuild ==
    /\ pc = "queryColumns"
    /\ mysqlTypePrefixToGoType = ExampleLookup
    /\ columnOutput = <<>>
    /\ columnInfo = <<>>
    /\ tableInfo = <<>>
    /\ colRead = <<>>
    /\ fkRead = <<>>
    /\ rowsErr = FALSE
    /\ foreignKeyRowsErr = FALSE
    /\ ret = <<>>
    /\ tables = EmptyMap
    /\ tableDone = {}
    /\ curTable = ""
    /\ constraintDone = {}
    /\ curConstraint = ""
    /\ runs = 0
    /\ firstRun = EmptyMap

\* lines 98-111: the column query, then the empty record
QueryColumns ==
    /\ pc = "queryColumns"
    /\ \E ok \in BOOLEAN :
         IF ok
         THEN /\ tableInfo' = <<NewTableInfo>>
              /\ pc' = "columnRows"
              /\ UNCHANGED ret
         ELSE /\ ReturnError("query")
              /\ UNCHANGED tableInfo
    /\ UNCHANGED <<mysqlTypePrefixToGoType, columnVars, colRead, fkRead,
                   rowsErr, foreignKeyRowsErr, resolveVars>>

\* lines 113-130, rows.Next() is true: scan one row and store its column
ColumnRowsNext ==
    /\ pc = "columnRows"
    /\ Len(colRead) < MaxColRows
    /\ \E row \in ColumnOutputs, scanned \in BOOLEAN,
          order \in Orders(DOMAIN mysqlTypePrefixToGoType) :
         IF scanned
         THEN /\ tableInfo' =
                   <<[tableInfo[1] EXCEPT !.columns =
                        Put(@, row.fieldName, getColumnInfo(row, order))]>>
              /\ colRead' = Append(colRead, row)
              /\ UNCHANGED <<pc, ret>>
         ELSE /\ ReturnError("scan")
              /\ UNCHANGED <<tableInfo, colRead>>
    /\ UNCHANGED <<mysqlTypePrefixToGoType, columnVars, fkRead, rowsErr,
                   foreignKeyRowsErr, resolveVars>>

\* line 113, rows.Next() is false: the result is exhausted, or the iteration
\* stopped on an error that only rows.Err() tells apart; the code does not ask
ColumnRowsEnd ==
    /\ pc = "columnRows"
    /\ \E stopped \in BOOLEAN : rowsErr' = stopped
    /\ pc' = "queryForeignKeys"
    /\ UNCHANGED <<mysqlTypePrefixToGoType, columnVars, tableInfo, colRead,
                   fkRead, foreignKeyRowsErr, ret, resolveVars>>

\* lines 132-140: the foreign-key usage query
QueryForeignKeys ==
    /\ pc = "queryForeignKeys"
    /\ \E ok \in BOOLEAN :
         IF ok
         THEN /\ pc' = "foreignKeyRows"
              /\ UNCHANGED ret
         ELSE ReturnError("query")
    /\ UNCHANGED <<mysqlTypePrefixToGoType, columnVars, tableInfo, colRead,
                   fkRead, rowsErr, foreignKeyRowsErr, resolveVars>>

\* lines 141-173, foreignKeyRows.Next() is true.  Line 160 declares
\* constraint as a nil pointer; the constraint of line 161 is a new variable
\* scoped to the if statement, so the entry made at lines 162-165 never
\* reaches the outer one, and line 167 dereferences nil: the call panics.
ForeignKeyRowsNext ==
    /\ pc = "foreignKeyRows"
    /\ \E row \in ForeignKeyOutputs, scanned \in BOOLEAN :
         IF scanned
         THEN LET ti == tableInfo[1]
                  fkc == ti.foreignKeyConstraints
                  name == row.constraintName
              IN /\ tableInfo' =
                      <<[ti EXCEPT
                           !.referencedTables = @ \cup {row.referencedTableName},
                           !.foreignKeyConstraints =
                               IF name \in DOMAIN fkc THEN fkc
                               ELSE Put(fkc, name, [parts |-> <<>>])]>>
                 /\ fkRead' = Append(fkRead, row)
                 /\ pc' = "panicked"
                 /\ UNCHANGED ret
         ELSE /\ ReturnError("scan")
              /\ UNCHANGED <<tableInfo, fkRead>>
    /\ UNCHANGED <<mysqlTypePrefixToGoType, columnVars, colRead, rowsErr,
                   foreignKeyRowsErr, resolveVars>>

\* lines 141 and 174, foreignKeyRows.Next() is false: return tableInfo, nil
ForeignKeyRowsEnd ==
    /\ pc = "foreignKeyRows"
    /\ \E stopped \in BOOLEAN : foreignKeyRowsErr' = stopped
    /\ ret' = <<[info |-> tableInfo, err |-> ""]>>
    /\ pc' = "returned"
    /\ UNCHANGED <<mysqlTypePrefixToGoType, columnVars, tableInfo, colRead,
                   fkRead, rowsErr, resolveVars>>

NextBuild ==
    \/ QueryColumns
    \/ ColumnRowsNext
    \/ ColumnRowsEnd
    \/ QueryForeignKeys
    \/ ForeignKeyRowsNext
    \/ ForeignKeyRowsEnd

SpecBuild == InitBuild /\ [][NextBuild]_vars

(***************************************************************************)
(* validateAndGetReverse, lines 177-197                                    *)
(***************************************************************************)
\* lines 187-192 with the remote column left as it was
ReversePartUnswapped(part) ==
    [tableName |-> part.remoteColumnName,
     columnName |-> part.remoteColumnName,
     remoteTableName |-> part.tableName,
     remoteColumnName |-> part.remoteColumnName]

\* lines 187-192
ReversePart(part) ==
    [tableName |-> part.remoteColumnName,
     columnName |-> part.remoteColumnName,
     remoteTableName |-> part.tableName,
     remoteColumnName |-> part.columnName]

\* the loop of lines 181-193 from part i on; ok is FALSE once x.AssertTrue
\* of line 185 fails, which ends the program
RECURSIVE ReverseLoop(_, _, _, _)
ReverseLoop(parts, i, remoteTableName, reverseParts) ==
    IF i > Len(parts)
    THEN [ok |-> TRUE, remoteTableName |-> remoteTableName,
          constraint |-> [parts |-> reverseParts]]
    ELSE IF remoteTableName = ""
    THEN ReverseLoop(parts, i + 1, parts[i].remoteTableName,
                     Append(reverseParts, ReversePart(parts[i])))
    ELSE IF parts[i].remoteTableName = remoteTableName
    THEN ReverseLoop(parts, i + 1, remoteTableName,
                     Append(reverseParts, ReversePart(parts[i])))
    ELSE [ok |-> FALSE, remoteTableName |-> remoteTableName,
          constraint |-> [parts |-> reverseParts]]

validateAndGetReverse(constraint) == ReverseLoop(constraint.parts, 1, "", <<>>)

(***************************************************************************)
(* Inputs of populateReferencedByColumns                                   *)
(***************************************************************************)
MaxModelParts == 4   \* most constraint parts of a whole model

TableNames == {"student", "course"}

\* what a part can name as its remote table
RemoteNames == TableNames \cup {""}

ConstraintNames == <<"fk1", "fk2", "fk3", "fk4", "fk5", "fk6">>

\* the local and the referenced column of the i-th part of a constraint
LocalCols == <<"a_id", "b_id", "c_id", "d_id", "e_id", "f_id">>
RemoteCols == <<"id", "key", "no", "ref", "code", "tag">>

\* flat lists the remote table of every part of a model, starts says where
\* a new constraint begins and owner which table declares it: the
\* constraints in order, each as <<owning table, remote table of each part>>
Constraints(flat, starts, owner) ==
    LET nth(i) == CHOOSE s \in starts : Cardinality({x \in starts : x <= s}) = i
        last(s) == IF \E x \in starts : x > s
                   THEN (CHOOSE x \in starts :
                           x > s /\ \A y \in starts : y > s => x <= y) - 1
                   ELSE Len(flat)
    IN [i \in 1..Cardinality(starts) |->
          <<owner[nth(i)], SubSeq(flat, nth(i), last(nth(i)))>>]

\* the record getTableInfo would build for table t with these constraints
MkTable(t, raws) ==
    [tableName |-> t,
     columns |-> EmptyMap,
     referencedTables |->
         UNION {Range(raws[i][2]) : i \in DOMAIN raws},
     foreignKeyConstraints |->
         [n \in {ConstraintNames[i] : i \in DOMAIN raws} |->
            LET raw == raws[CHOOSE i \in DOMAIN raws : ConstraintNames[i] = n][2]
            IN [parts |->
                  [j \in DOMAIN raw |->
                     [tableName |-> t,
                      columnName |-> LocalCols[j],
                      remoteTableName |-> raw[j],
                      remoteColumnName |-> RemoteCols[j]]]]],
     constraintSources |-> <<>>]

InitResolve ==
    /\ pc = "rangeTables"
    /\ mysqlTypePrefixToGoType = ExampleLookup
    /\ columnOutput = <<>>
    /\ columnInfo = <<>>
    /\ tableInfo = <<>>
    /\ colRead = <<>>
    /\ fkRead = <<>>
    /\ rowsErr = FALSE
    /\ foreignKeyRowsErr = FALSE
    /\ ret = <<>>
    /\ \E K \in (SUBSET TableNames) \ {{}}, n \in 0..MaxModelParts :
         \E flat \in [1..n -> RemoteNames], cuts \in SUBSET (1..(n - 1)) :
           LET starts == IF n = 0 THEN {} ELSE {1} \cup {c + 1 : c \in cuts}
           IN \E owner \in [starts -> K] :
                LET fks == Constraints(flat, starts, owner)
                IN tables = [t \in K |->
                               MkTable(t, SelectSeq(fks, LAMBDA fk : fk[1] = t))]
    /\ tableDone = {}
    /\ curTable = ""
    /\ constraintDone = {}
    /\ curConstraint = ""
    /\ runs = 0
    /\ firstRun = EmptyMap

(***************************************************************************)
(* populateReferencedByColumns, lines 202-211                              *)
(***************************************************************************)
Inbound == [t \in DOMAIN tables |-> tables[t].constraintSources]

\* lines 207-208 appending to the table that declares the constraint
AppendSourceToOwner(reverseTable, reverseConstraint) ==
    [tables EXCEPT ![curTable].constraintSources = Append(@, reverseConstraint)]

\* lines 207-208 behind a guard against an entry the list already holds
AppendSourceOnce(reverseTable, reverseConstraint) ==
    IF reverseConstraint \in Range(tables[reverseTable].constraintSources)
    THEN tables
    ELSE [tables EXCEPT ![reverseTable].constraintSources =
            Append(@, reverseConstraint)]

\* lines 207-208
AppendSource(reverseTable, reverseConstraint) ==
    [tables EXCEPT ![reverseTable].constraintSources = Append(@, reverseConstraint)]

\* line 203: the outer range visits a table it has not visited yet
NextTable ==
    /\ pc = "rangeTables"
    /\ \E t \in (DOMAIN tables) \ tableDone :
         /\ curTable' = t
         /\ constraintDone' = {}
         /\ pc' = "rangeConstraints"
    /\ UNCHANGED <<mysqlTypePrefixToGoType, columnVars, buildVars, tables,
                   tableDone, curConstraint, runs, firstRun>>

\* lines 204-209: the inner range visits a constraint it has not visited
\* yet.  A failed assertion ends the program, and so does the nil
\* dereference of tables[reverseTable] when the map has no such key.
NextConstraint ==
    /\ pc = "rangeConstraints"
    /\ \E c \in (DOMAIN tables[curTable].foreignKeyConstraints) \ constraintDone :
         LET rev == validateAndGetReverse(tables[curTable].foreignKeyConstraints[c])
             reverseTable == rev.remoteTableName
         IN /\ curConstraint' = c
            /\ constraintDone' = constraintDone \cup {c}
            /\ IF rev.ok /\ reverseTable \in DOMAIN tables
               THEN /\ tables' = AppendSource(reverseTable, rev.constraint)
                    /\ UNCHANGED pc
               ELSE /\ pc' = "aborted"
                    /\ UNCHANGED tables
    /\ UNCHANGED <<mysqlTypePrefixToGoType, columnVars, buildVars, tableDone,
                   curTable, runs, firstRun>>

\* line 204: the inner range is over
EndConstraints ==
    /\ pc = "rangeConstraints"
    /\ constraintDone = DOMAIN tables[curTable].foreignKeyConstraints
    /\ tableDone' = tableDone \cup {curTable}
    /\ pc' = "rangeTables"
    /\ UNCHANGED <<mysqlTypePrefixToGoType, columnVars, buildVars, tables,
                   curTable, constraintDone, curConstraint, runs, firstRun>>

\* line 203: the outer range is over, the call returns
EndTables ==
    /\ pc = "rangeTables"
    /\ tableDone = DOMAIN tables
    /\ pc' = "done"
    /\ runs' = runs + 1
    /\ firstRun' = IF runs = 0 THEN Inbound ELSE firstRun
    /\ UNCHANGED <<mysqlTypePrefixToGoType, columnVars, buildVars, tables,
                   tableDone, curTable, constraintDone, curConstraint>>

\* the caller calls populateReferencedByColumns a second time on the same map
CallAgain ==
    /\ pc = "done"
    /\ runs < 2
    /\ pc' = "rangeTables"
    /\ tableDone' = {}
    /\ UNCHANGED <<mysqlTypePrefixToGoType, columnVars, buildVars, tables,
                   curTable, constraintDone, curConstraint, runs, firstRun>>

NextResolve ==
    \/ NextTable
    \/ NextConstraint
    \/ EndConstraints
    \/ EndTables
    \/ CallAgain

SpecResolve == InitResolve /\ [][NextResolve]_vars

(***************************************************************************)
(* Properties of getColumnInfo and getTableInfo                            *)
(***************************************************************************)
\* the column rows scanned so far whose name no later row repeats
LastOfName(i) ==
    \A j \in DOMAIN colRead : j > i => colRead[j].fieldName # colRead[i].fieldName

\* the record holds a column for every row scanned, under the row's name,
\* classified PRIMARY for "PRI", MULTI for "MUL" and NONE otherwise
ColumnsReflect(info) ==
    /\ DOMAIN info.columns = {colRead[i].fieldName : i \in DOMAIN colRead}
    /\ \A i \in DOMAIN colRead :
         LastOfName(i) =>
           LET col == info.columns[colRead[i].fieldName]
               key == colRead[i].keyType
           IN /\ col.name = colRead[i].fieldName
              /\ key = "PRI" => col.keyType = PRIMARY
              /\ key = "MUL" => col.keyType = MULTI
              /\ key \notin {"PRI", "MUL"} => col.keyType = NONE

\* the parts the rows named N stand for, in row order
PartsNamed(N) ==
    LET rows == SelectSeq(fkRead, LAMBDA r : r.constraintName = N)
    IN [i \in DOMAIN rows |->
          [tableName |-> table,
           columnName |-> rows[i].columnName,
           remoteTableName |-> rows[i].referencedTableName,
           remoteColumnName |-> rows[i].referencedColumnName]]

\* the record holds, for every constraint name of the rows scanned, exactly
\* the rows of that name as parts
ConstraintsReflect(info) ==
    \A i \in DOMAIN fkRead :
      LET N == fkRead[i].constraintName
      IN /\ N \in DOMAIN info.foreignKeyConstraints
         /\ info.foreignKeyConstraints[N].parts = PartsNamed(N)

\* C2: for any sequence of foreign-key usage rows getTableInfo completes, and
\* the record it returns holds for every constraint name N of the rows an
\* entry whose parts are exactly the rows named N, in row order.
C2_ConstraintParts ==
    /\ pc # "panicked"
    /\ (ret # <<>> /\ ret[1].info # <<>>) => ConstraintsReflect(ret[1].info[1])

\* C5: getColumnInfo sets dataType to the value of the longest key that is a
\* prefix of the declared type, and to the zero type when no key is a
\* prefix, whatever the iteration order of the lookup table.
C5_LongestPrefix ==
    columnInfo # <<>> =>
      LET s == columnOutput.dataType
          matching == {k \in DOMAIN mysqlTypePrefixToGoType : HasPrefix(s, k)}
      IN IF matching = {}
         THEN columnInfo[1].dataType = ZeroDataType
         ELSE columnInfo[1].dataType =
                mysqlTypePrefixToGoType[
                  CHOOSE k \in matching : \A j \in matching : Len(j) <= Len(k)]

\* C6: getTableInfo is all-or-nothing: an iteration that stopped on an error
\* makes it return an error, an error comes with no record, and a record
\* returned without error reflects every row of both results.
C6_AllOrNothing ==
    ret # <<>> =>
      /\ (rowsErr \/ foreignKeyRowsErr) => ret[1].err # ""
      /\ ret[1].err # "" => ret[1].info = <<>>
      /\ ret[1].err = "" =>
           /\ ret[1].info # <<>>
           /\ ~rowsErr
           /\ ~foreignKeyRowsErr
           /\ ColumnsReflect(ret[1].info[1])
           /\ ConstraintsReflect(ret[1].info[1])

\* C7: every column row is classified PRIMARY for "PRI", MULTI for "MUL" and
\* NONE for any other string, and stored under the row's column name.
C7_KeyClassification ==
    tableInfo # <<>> => ColumnsReflect(tableInfo[1])

\* a record is returned that holds a MULTI and a NONE column, the latter from
\* the empty classification string
C7_Witness ==
    /\ ret # <<>>
    /\ ret[1].err = ""
    /\ Len(colRead) = 2
    /\ colRead[1].keyType = "MUL"
    /\ colRead[2].keyType = ""
    /\ colRead[1].fieldName # colRead[2].fieldName
    /\ ret[1].info[1].columns[colRead[1].fieldName].keyType = MULTI
    /\ ret[1].info[1].columns[colRead[2].fieldName].keyType = NONE

(***************************************************************************)
(* Properties of validateAndGetReverse and populateReferencedByColumns     *)
(***************************************************************************)
\* every outbound constraint of the model, as <<table, constraint name>>
Outbound ==
    UNION {{<<t, n>> : n \in DOMAIN tables[t].foreignKeyConstraints} :
             t \in DOMAIN tables}

ConstraintOf(o) == tables[o[1]].foreignKeyConstraints[o[2]]

\* every referenced table is a table of the model
Closed ==
    \A o \in Outbound : \A p \in Range(ConstraintOf(o).parts) :
      p.remoteTableName \in DOMAIN tables

\* the parts of the constraint do not all name the same remote table
Mixed(c) ==
    \E p \in Range(c.parts), q \in Range(c.parts) :
      p.remoteTableName # q.remoteTableName

Consistent == \A o \in Outbound : ~Mixed(ConstraintOf(o))

\* the remote table of a constraint whose parts agree on it
RemoteOf(c) == c.parts[1].remoteTableName

Pairs(c) == {<<p.columnName, p.remoteColumnName>> : p \in Range(c.parts)}

Count(e, list) == Cardinality({i \in DOMAIN list : list[i] = e})

FirstRunOver == pc = "done" /\ runs = 1

\* this step is the inner loop processing the constraint curConstraint'
Processing == pc = "rangeConstraints" /\ constraintDone' # constraintDone

\* C1: after one run over a closed model of single-remote constraints, the
\* reverse of every outbound constraint is in its remote table's inbound
\* list, and reversing the reverse gives back the constraint's set of
\* (columnName, remoteColumnName) pairs.
C1_RoundTrip ==
    (FirstRunOver /\ Closed /\ Consistent) =>
      \A o \in Outbound :
        LET rev == validateAndGetReverse(ConstraintOf(o))
            back == validateAndGetReverse(rev.constraint)
        IN /\ rev.ok
           /\ rev.constraint \in
                Range(tables[RemoteOf(ConstraintOf(o))].constraintSources)
           /\ back.ok
           /\ Pairs(back.constraint) = Pairs(ConstraintOf(o))

\* one run is over on a closed model in which each table references the
\* other, one of them through a constraint of two parts
C1_Witness ==
    /\ FirstRunOver /\ Closed /\ Consistent
    /\ \E o \in Outbound, q \in Outbound :
         /\ o[1] # q[1]
         /\ RemoteOf(ConstraintOf(o)) = q[1]
         /\ RemoteOf(ConstraintOf(q)) = o[1]
         /\ Len(ConstraintOf(o).parts) = 2
         /\ Len(tables[q[1]].constraintSources) >= 1

\* C3: a constraint whose parts do not all name the same remote table makes
\* populateReferencedByColumns abort when it processes it, and nothing is
\* appended to any inbound list.
C3_MixedAborts ==
    [][(Processing /\ Mixed(tables[curTable].foreignKeyConstraints[curConstraint']))
         => (pc' = "aborted" /\ tables' = tables)]_vars

\* C4: a second run leaves in every inbound list the entries of the first
\* run, each the same number of times.
C4_NoDuplicates ==
    (pc = "done" /\ runs = 2) =>
      \A t \in DOMAIN tables :
        \A e \in Range(tables[t].constraintSources) \cup Range(firstRun[t]) :
          Count(e, tables[t].constraintSources) = Count(e, firstRun[t])

\* C4, amended: on a model whose inbound lists were empty before the first
\* run, a second run appends every reverse constraint again: every inbound
\* list then holds each entry twice as many times as after the first run.
C4_Doubled ==
    (pc = "done" /\ runs = 2) =>
      \A t \in DOMAIN tables :
        \A e \in Range(tables[t].constraintSources) \cup Range(firstRun[t]) :
          Count(e, tables[t].constraintSources) = 2 * Count(e, firstRun[t])

\* two runs are over and a table that had one inbound entry has two
C4_Witness ==
    /\ pc = "done" /\ runs = 2
    /\ \E t \in DOMAIN tables :
         /\ Len(firstRun[t]) = 1
         /\ Len(tables[t].constraintSources) = 2

\* C8: a constraint that references a table the model has no key for makes
\* populateReferencedByColumns abort when it processes it.
C8_MissingRemoteAborts ==
    [][(Processing /\
        \E p \in Range(tables[curTable].foreignKeyConstraints[curConstraint'].parts) :
          p.remoteTableName \notin DOMAIN tables)
         => pc' = "aborted"]_vars

\* C9: every part stored in a table's inbound list is some outbound part
\* with the local and remote sides swapped: its table is the original remote
\* table, which is the table that owns the list.
C9_ReverseIdentity ==
    \A t \in DOMAIN tables :
      \A e \in Range(tables[t].constraintSources) : \A p \in Range(e.parts) :
        /\ p.tableName = t
        /\ \E o \in Outbound : \E q \in Range(ConstraintOf(o).parts) :
             /\ p.tableName = q.remoteTableName
             /\ p.columnName = q.remoteColumnName
             /\ p.remoteTableName = q.tableName
             /\ p.remoteColumnName = q.columnName

\* C10: after one run over a closed, consistent model every inbound list is
\* as long as the model has outbound constraints referencing its table, in
\* every iteration order, and no step changes the outbound constraints, the
\* columns or the referenced-table sets.
C10_InboundCount ==
    /\ [](FirstRunOver /\ Closed /\ Consistent =>
            \A R \in DOMAIN tables :
              Len(tables[R].constraintSources) =
                Cardinality({o \in Outbound : RemoteOf(ConstraintOf(o)) = R}))
    /\ [][/\ DOMAIN tables' = DOMAIN tables
          /\ \A t \in DOMAIN tables :
               /\ tables'[t].foreignKeyConstraints = tables[t].foreignKeyConstraints
               /\ tables'[t].columns = tables[t].columns
               /\ tables'[t].referencedTables = tables[t].referencedTables
               /\ tables'[t].tableName = tables[t].tableName]_vars

\* one run is over on a closed, consistent model in which a table has two
\* inbound entries, one from each table of the model
C10_Witness ==
    /\ FirstRunOver /\ Closed /\ Consistent
    /\ \E R \in DOMAIN tables :
         /\ Len(tables[R].constraintSources) = 2
         /\ tables[R].constraintSources[1].parts[1].remoteTableName #
              tables[R].constraintSources[2].parts[1].remoteTableName

====
